---- MODULE Spec2Model ----
(***************************************************************************)
(* Model of the chat backend in src/main.py: the /chat handler (one turn   *)
(* per request), call_llm (one model dispatch), format_history, and the    *)
(* "messages" table they read and write.                                   *)
(*                                                                         *)
(* Requests are served by a thread pool, so turns interleave at their      *)
(* blocking calls: the two inserts, the history select and the two model   *)
(* requests.  Each such call is one action; the statements between two      *)
(* calls are local to the request and belong to the action that precedes   *)
(* them.                                                                   *)
(***************************************************************************)
EXTENDS Integers, Sequences, FiniteSets, TLC

\* ------------------------------------------------------------------ bounds
\* Number of /chat requests received in one run of the model.
MaxTurns == 2
\* Rows the table already holds for session "s1" when the process starts.
MaxPrior == 6

\* --------------------------------------------------------------- constants
PRIMARY_MODEL == "meta-llama/llama-3-8b-instruct"
FALLBACK_MODEL == "mistralai/mistral-7b-instruct"
SYSTEM_PROMPT == "You are a rude website chatbot. Be concise, sarcastic, and unfiltered."
\* .limit(6) of the history select
Limit == 6

\* ------------------------------------------------------------------ inputs
\* the request threads of the server's pool; a thread serves one turn at a time
Turns == {1, 2}
Sessions == {"s1", "s2"}
\* ChatInput.message is any str, the empty string included
Messages == {"", "hi"}
\* what a model may answer in choices[0].message.content
Replies == {"hello"}
\* how one requests.post can end: a 200 with the reply in place, another
\* status, an exception of requests.post itself (connection error, or no
\* answer within REQUEST_TIMEOUT), a 200 whose body lacks the reply path
Outcomes == {"ok", "status", "timeout", "malformed"}
\* requests.post itself raises: no response object exists
RaisedByPost == {"timeout"}

VARIABLES
    store,      \* the "messages" table, rows in created_at order
    pc,         \* pc[t]: where thread t is in chat()
    session,    \* data.session_id
    message,    \* data.message
    logs,       \* the logs list
    history,    \* the history list (the rows the select returned, oldest first)
    messages,   \* the messages list (the prompt)
    reply,      \* reply
    used_model, \* used_model
    result,     \* the value chat() returned
    fetched,    \* history: how the history select ended ("no" before it)
    prior,      \* history: the session's rows when the turn began
    inserts,    \* history: the insert calls the turn has made
    attempts,   \* history: the model requests the turn has made
    received,   \* history: number of requests received so far
    delivered   \* history: <<session, content>> of every successful dispatch

vars == <<store, pc, session, message, logs, history, messages, reply, used_model,
          result, fetched, prior, inserts, attempts, received, delivered>>

\* ----------------------------------------------------------------- helpers
Reverse(s) == [i \in 1..Len(s) |-> s[Len(s) + 1 - i]]

\* tail of s holding at most n elements
LastN(s, n) == IF Len(s) <= n THEN s ELSE SubSeq(s, Len(s) - n + 1, Len(s))

Line(text, arg) == [line |-> text, arg |-> arg]

Row(sid, role, content) == [session_id |-> sid, role |-> role, content |-> content]

Msg(role, content) == [role |-> role, content |-> content]

NoResult == [none |-> TRUE]
NoModel == ""

\* rows of one session, oldest first
SessionRows(tbl, sid) == SelectSeq(tbl, LAMBDA r : r.session_id = sid)

\* the role and content columns of rows
Columns(rows) == [i \in 1..Len(rows) |-> Msg(rows[i].role, rows[i].content)]

\* variant: the select without its session filter
QueryRecentAllSessions(tbl, sid, n) == Reverse(LastN(Columns(tbl), n))

\* .select("role, content").eq("session_id", sid).order("created_at", desc=True).limit(n)
QueryRecent(tbl, sid, n) == Reverse(LastN(Columns(SessionRows(tbl, sid)), n))

\* variant: only the role is tested
format_history_role_only(rows) == SelectSeq(rows, LAMBDA r : r.role # "")

\* format_history: keep the rows whose role and content are both truthy
format_history(rows) == SelectSeq(rows, LAMBDA r : r.role # "" /\ r.content # "")

\* variant: the new user message is left to the window
BuildMessagesNoUser(rows, text) ==
    <<Msg("system", SYSTEM_PROMPT)>> \o format_history(rows)

\* the messages list built in chat()
BuildMessages(rows, text) ==
    <<Msg("system", SYSTEM_PROMPT)>> \o format_history(rows) \o <<Msg("user", text)>>

\* variant: no line before the request
call_llm_silent(model, lg, outcome, content) ==
    LET l2 == Append(lg, Line("Response time", ""))
    IN  IF outcome \in RaisedByPost
        THEN [logs |-> lg, raised |-> TRUE, value |-> ""]
        ELSE [logs |-> l2, raised |-> outcome # "ok",
              value |-> IF outcome = "ok" THEN content ELSE ""]

\* variant: a body without the reply path yields an empty reply
call_llm_lenient(model, lg, outcome, content) ==
    LET l1 == Append(lg, Line("Calling model", model))
        l2 == Append(l1, Line("Response time", ""))
    IN  IF outcome \in RaisedByPost
        THEN [logs |-> l1, raised |-> TRUE, value |-> ""]
        ELSE IF outcome \in {"ok", "malformed"}
             THEN [logs |-> l2, raised |-> FALSE,
                   value |-> IF outcome = "ok" THEN content ELSE ""]
             ELSE [logs |-> l2, raised |-> TRUE, value |-> ""]

\* call_llm(model, messages, logs) for a request that ends as `outcome`
\* and, when it succeeds, answers `content`
call_llm(model, lg, outcome, content) ==
    LET l1 == Append(lg, Line("Calling model", model))
        l2 == Append(l1, Line("Response time", ""))
    IN  IF outcome \in RaisedByPost
        THEN [logs |-> l1, raised |-> TRUE, value |-> ""]
        ELSE IF outcome = "ok"
             THEN [logs |-> l2, raised |-> FALSE, value |-> content]
             ELSE [logs |-> l2, raised |-> TRUE, value |-> ""]

\* variant: the failure is returned in the shape of a reply
ErrorResultWithReply(lg) == [reply |-> "", logs |-> lg, model |-> FALLBACK_MODEL]

\* the dict returned when both models failed
ErrorResult(lg) == [error |-> "LLM failed", logs |-> lg]

\* variant: the result always names the fallback model
SuccessResultFallbackName(rep, lg, model) ==
    [reply |-> rep, logs |-> lg, model |-> FALLBACK_MODEL]

\* the dict returned with the reply
SuccessResult(rep, lg, model) == [reply |-> rep, logs |-> lg, model |-> model]

\* variant: the assistant row is filed under the other session
AssistantRowOtherSession(sid, rep) ==
    Row(IF sid = "s1" THEN "s2" ELSE "s1", "assistant", rep)

\* the row of the second insert
AssistantRow(sid, rep) == Row(sid, "assistant", rep)

\* the row of the first insert
UserRow(sid, text) == Row(sid, "user", text)

\* one insert call as the table saw it
Insert(row, ok) == [row |-> row, persisted |-> ok]

\* the conversation earlier runs of the service left in the table
PriorHistory ==
    <<Row("s1", "user", "q1"), Row("s1", "assistant", "r1"),
      Row("s1", "user", "q2"), Row("s1", "assistant", "r2"),
      Row("s1", "user", "q3"), Row("s1", "assistant", "r3"),
      Row("s1", "user", "q4"), Row("s1", "assistant", "r4")>>

InitStore == SubSeq(PriorHistory, 1, MaxPrior)

\* -------------------------------------------------------------------- Init
Init ==
    /\ store = InitStore
    /\ pc = [t \in Turns |-> "idle"]
    /\ session = [t \in Turns |-> "s1"]
    /\ message = [t \in Turns |-> ""]
    /\ logs = [t \in Turns |-> <<>>]
    /\ history = [t \in Turns |-> <<>>]
    /\ messages = [t \in Turns |-> <<>>]
    /\ fetched = [t \in Turns |-> "no"]
    /\ reply = [t \in Turns |-> ""]
    /\ used_model = [t \in Turns |-> NoModel]
    /\ result = [t \in Turns |-> NoResult]
    /\ prior = [t \in Turns |-> <<>>]
    /\ inserts = [t \in Turns |-> <<>>]
    /\ attempts = [t \in Turns |-> <<>>]
    /\ received = 0
    /\ delivered = {<<store[i].session_id, store[i].content>> :
                        i \in {j \in 1..Len(store) : store[j].role = "assistant"}}

\* variant: a failed user insert is swallowed and the turn goes on
SaveUserSwallowing(t, sid, text, ok) ==
    /\ pc[t] = "idle"
    /\ \A u \in Turns : u < t => pc[u] # "idle"
    /\ received < MaxTurns
    /\ received' = received + 1
    /\ session' = [session EXCEPT ![t] = sid]
    /\ message' = [message EXCEPT ![t] = text]
    /\ prior' = [prior EXCEPT ![t] = SessionRows(store, sid)]
    /\ inserts' = [inserts EXCEPT ![t] = <<Insert(UserRow(sid, text), ok)>>]
    /\ store' = IF ok THEN Append(store, UserRow(sid, text)) ELSE store
    /\ logs' = [logs EXCEPT ![t] = <<Line("Received user message", ""),
                                     Line("User message saved", "")>>]
    /\ pc' = [pc EXCEPT ![t] = "fetch"]
    /\ UNCHANGED <<history, messages, reply, used_model, result, fetched, attempts,
                   delivered>>

\* variant: a failed history select counts as an empty history
FetchHistorySwallowing(t, ok) ==
    /\ pc[t] = "fetch"
    /\ fetched' = [fetched EXCEPT ![t] = IF ok THEN "ok" ELSE "failed"]
    /\ LET rows == IF ok THEN Reverse(QueryRecent(store, session[t], Limit)) ELSE <<>>
       IN  /\ history' = [history EXCEPT ![t] = rows]
           /\ logs' = [logs EXCEPT ![t] =
                         Append(@, Line("Loaded history messages", ToString(Len(rows))))]
           /\ messages' = [messages EXCEPT ![t] = BuildMessages(rows, message[t])]
           /\ pc' = [pc EXCEPT ![t] = "primary"]
    /\ UNCHANGED <<store, session, message, reply, used_model, result, prior,
                   inserts, attempts, received, delivered>>

\* ----------------------------------------------------------------- actions
\* POST /chat arrives at an idle thread (the pool hands a request to its first
\* idle thread) and chat() runs up to its first blocking call, the insert of
\* the user row; `ok` is whether .execute() returns or raises
SaveUser(t, sid, text, ok) ==
    /\ pc[t] = "idle"
    /\ \A u \in Turns : u < t => pc[u] # "idle"
    /\ received < MaxTurns
    /\ received' = received + 1
    /\ session' = [session EXCEPT ![t] = sid]
    /\ message' = [message EXCEPT ![t] = text]
    /\ prior' = [prior EXCEPT ![t] = SessionRows(store, sid)]
    /\ inserts' = [inserts EXCEPT ![t] = <<Insert(UserRow(sid, text), ok)>>]
    /\ IF ok
       THEN /\ store' = Append(store, UserRow(sid, text))
            /\ logs' = [logs EXCEPT ![t] = <<Line("Received user message", ""),
                                             Line("User message saved", "")>>]
            /\ pc' = [pc EXCEPT ![t] = "fetch"]
       ELSE /\ logs' = [logs EXCEPT ![t] = <<Line("Received user message", "")>>]
            /\ pc' = [pc EXCEPT ![t] = "fault"]
            /\ UNCHANGED store
    /\ UNCHANGED <<history, messages, reply, used_model, result, fetched, attempts,
                   delivered>>

\* the history select, then the prompt is assembled
FetchHistory(t, ok) ==
    /\ pc[t] = "fetch"
    /\ fetched' = [fetched EXCEPT ![t] = IF ok THEN "ok" ELSE "failed"]
    /\ IF ok
       THEN LET rows == Reverse(QueryRecent(store, session[t], Limit))
            IN  /\ history' = [history EXCEPT ![t] = rows]
                /\ logs' = [logs EXCEPT ![t] =
                              Append(@, Line("Loaded history messages", ToString(Len(rows))))]
                /\ messages' = [messages EXCEPT ![t] = BuildMessages(rows, message[t])]
                /\ pc' = [pc EXCEPT ![t] = "primary"]
       ELSE /\ pc' = [pc EXCEPT ![t] = "fault"]
            /\ UNCHANGED <<logs, history, messages>>
    /\ UNCHANGED <<store, session, message, reply, used_model, result, prior,
                   inserts, attempts, received, delivered>>

\* one model request as the endpoint saw it
Attempt(model, prompt, outcome, value) ==
    [model |-> model, messages |-> prompt, outcome |-> outcome, content |-> value]

\* variant: a failed primary request is tried once more
CallPrimaryRetrying(t, outcome, content) ==
    /\ pc[t] = "primary"
    /\ LET r == call_llm(PRIMARY_MODEL, logs[t], outcome, content)
       IN  /\ attempts' = [attempts EXCEPT ![t] =
                 Append(@, Attempt(PRIMARY_MODEL, messages[t], outcome, r.value))]
           /\ IF r.raised
              THEN /\ logs' = [logs EXCEPT ![t] = r.logs]
                   /\ pc' = [pc EXCEPT ![t] =
                        IF Len(attempts[t]) = 0 THEN "primary" ELSE "fallback"]
                   /\ UNCHANGED <<reply, used_model, delivered>>
              ELSE /\ reply' = [reply EXCEPT ![t] = r.value]
                   /\ used_model' = [used_model EXCEPT ![t] = PRIMARY_MODEL]
                   /\ logs' = [logs EXCEPT ![t] =
                        Append(r.logs, Line("Reply generated via", PRIMARY_MODEL))]
                   /\ delivered' = delivered \cup {<<session[t], r.value>>}
                   /\ pc' = [pc EXCEPT ![t] = "save_assistant"]
    /\ UNCHANGED <<store, session, message, history, messages, result, fetched, prior,
                   inserts, received>>

\* variant: a failed primary request sends the turn back to the history select
CallPrimaryRestarting(t, outcome, content) ==
    /\ pc[t] = "primary"
    /\ LET r == call_llm(PRIMARY_MODEL, logs[t], outcome, content)
       IN  IF r.raised
           THEN /\ logs' = [logs EXCEPT ![t] = SubSeq(@, 1, 2)]
                /\ history' = [history EXCEPT ![t] = <<>>]
                /\ messages' = [messages EXCEPT ![t] = <<>>]
                /\ fetched' = [fetched EXCEPT ![t] = "no"]
                /\ pc' = [pc EXCEPT ![t] = "fetch"]
                /\ UNCHANGED <<reply, used_model, delivered, attempts>>
           ELSE /\ attempts' = [attempts EXCEPT ![t] =
                      Append(@, [model |-> PRIMARY_MODEL, messages |-> messages[t],
                                 outcome |-> outcome, content |-> r.value])]
                /\ reply' = [reply EXCEPT ![t] = r.value]
                /\ used_model' = [used_model EXCEPT ![t] = PRIMARY_MODEL]
                /\ logs' = [logs EXCEPT ![t] =
                     Append(r.logs, Line("Reply generated via", PRIMARY_MODEL))]
                /\ delivered' = delivered \cup {<<session[t], r.value>>}
                /\ pc' = [pc EXCEPT ![t] = "save_assistant"]
                /\ UNCHANGED <<history, messages, fetched>>
    /\ UNCHANGED <<store, session, message, result, prior, inserts, received>>

\* try: call_llm(PRIMARY_MODEL, ...)
CallPrimary(t, outcome, content) ==
    /\ pc[t] = "primary"
    /\ LET r == call_llm(PRIMARY_MODEL, logs[t], outcome, content)
       IN  /\ attempts' = [attempts EXCEPT ![t] =
                 Append(@, Attempt(PRIMARY_MODEL, messages[t], outcome, r.value))]
           /\ IF r.raised
              THEN /\ logs' = [logs EXCEPT ![t] =
                        Append(r.logs, Line("Primary model failed, switching fallback", ""))]
                   /\ pc' = [pc EXCEPT ![t] = "fallback"]
                   /\ UNCHANGED <<reply, used_model, delivered>>
              ELSE /\ reply' = [reply EXCEPT ![t] = r.value]
                   /\ used_model' = [used_model EXCEPT ![t] = PRIMARY_MODEL]
                   /\ logs' = [logs EXCEPT ![t] =
                        Append(r.logs, Line("Reply generated via", PRIMARY_MODEL))]
                   /\ delivered' = delivered \cup {<<session[t], r.value>>}
                   /\ pc' = [pc EXCEPT ![t] = "save_assistant"]
    /\ UNCHANGED <<store, session, message, history, messages, result, fetched, prior,
                   inserts, received>>

\* variant: the assistant insert is made even when the fallback failed
CallFallbackPersisting(t, outcome, content) ==
    /\ pc[t] = "fallback"
    /\ LET r == call_llm(FALLBACK_MODEL, logs[t], outcome, content)
       IN  /\ attempts' = [attempts EXCEPT ![t] =
                 Append(@, [model |-> FALLBACK_MODEL, messages |-> messages[t],
                            outcome |-> outcome, content |-> r.value])]
           /\ IF r.raised
              THEN LET lg == Append(r.logs, Line("Fallback model failed", ""))
                   IN  /\ logs' = [logs EXCEPT ![t] = lg]
                       /\ result' = [result EXCEPT ![t] = ErrorResult(lg)]
                       /\ store' = Append(store, AssistantRow(session[t], reply[t]))
                       /\ inserts' = [inserts EXCEPT ![t] =
                             Append(@, Insert(AssistantRow(session[t], reply[t]), TRUE))]
                       /\ pc' = [pc EXCEPT ![t] = "done"]
                       /\ UNCHANGED <<reply, used_model, delivered>>
              ELSE /\ reply' = [reply EXCEPT ![t] = r.value]
                   /\ used_model' = [used_model EXCEPT ![t] = FALLBACK_MODEL]
                   /\ logs' = [logs EXCEPT ![t] =
                        Append(r.logs, Line("Reply generated via", FALLBACK_MODEL))]
                   /\ delivered' = delivered \cup {<<session[t], r.value>>}
                   /\ pc' = [pc EXCEPT ![t] = "save_assistant"]
                   /\ UNCHANGED <<result, store, inserts>>
    /\ UNCHANGED <<session, message, history, messages, fetched, prior, received>>

\* variant: the history is selected and the prompt built again for the fallback
CallFallbackRefetching(t, outcome, content) ==
    /\ pc[t] = "fallback"
    /\ LET r == call_llm(FALLBACK_MODEL, logs[t], outcome, content)
           rows == Reverse(QueryRecent(store, session[t], Limit))
           prompt == BuildMessages(rows, message[t])
       IN  /\ history' = [history EXCEPT ![t] = rows]
           /\ messages' = [messages EXCEPT ![t] = prompt]
           /\ attempts' = [attempts EXCEPT ![t] =
                 Append(@, [model |-> FALLBACK_MODEL, messages |-> prompt,
                            outcome |-> outcome, content |-> r.value])]
           /\ IF r.raised
              THEN LET lg == Append(r.logs, Line("Fallback model failed", ""))
                   IN  /\ logs' = [logs EXCEPT ![t] = lg]
                       /\ result' = [result EXCEPT ![t] = ErrorResult(lg)]
                       /\ pc' = [pc EXCEPT ![t] = "done"]
                       /\ UNCHANGED <<reply, used_model, delivered>>
              ELSE /\ reply' = [reply EXCEPT ![t] = r.value]
                   /\ used_model' = [used_model EXCEPT ![t] = FALLBACK_MODEL]
                   /\ logs' = [logs EXCEPT ![t] =
                        Append(r.logs, Line("Reply generated via", FALLBACK_MODEL))]
                   /\ delivered' = delivered \cup {<<session[t], r.value>>}
                   /\ pc' = [pc EXCEPT ![t] = "save_assistant"]
                   /\ UNCHANGED result
    /\ UNCHANGED <<store, session, message, fetched, prior, inserts, received>>

\* except: call_llm(FALLBACK_MODEL, ...); a second failure returns the error
CallFallback(t, outcome, content) ==
    /\ pc[t] = "fallback"
    /\ LET r == call_llm(FALLBACK_MODEL, logs[t], outcome, content)
       IN  /\ attempts' = [attempts EXCEPT ![t] =
                 Append(@, Attempt(FALLBACK_MODEL, messages[t], outcome, r.value))]
           /\ IF r.raised
              THEN LET lg == Append(r.logs, Line("Fallback model failed", ""))
                   IN  /\ logs' = [logs EXCEPT ![t] = lg]
                       /\ result' = [result EXCEPT ![t] = ErrorResult(lg)]
                       /\ pc' = [pc EXCEPT ![t] = "done"]
                       /\ UNCHANGED <<reply, used_model, delivered>>
              ELSE /\ reply' = [reply EXCEPT ![t] = r.value]
                   /\ used_model' = [used_model EXCEPT ![t] = FALLBACK_MODEL]
                   /\ logs' = [logs EXCEPT ![t] =
                        Append(r.logs, Line("Reply generated via", FALLBACK_MODEL))]
                   /\ delivered' = delivered \cup {<<session[t], r.value>>}
                   /\ pc' = [pc EXCEPT ![t] = "save_assistant"]
                   /\ UNCHANGED result
    /\ UNCHANGED <<store, session, message, history, messages, fetched, prior, inserts,
                   received>>

\* variant: the assistant row carries the user's message
SaveAssistantEcho(t, ok) ==
    /\ pc[t] = "save_assistant"
    /\ inserts' = [inserts EXCEPT ![t] =
          Append(@, Insert(AssistantRow(session[t], message[t]), ok))]
    /\ IF ok
       THEN LET lg == Append(logs[t], Line("Assistant message saved", ""))
            IN  /\ store' = Append(store, AssistantRow(session[t], message[t]))
                /\ logs' = [logs EXCEPT ![t] = lg]
                /\ result' = [result EXCEPT ![t] = SuccessResult(reply[t], lg, used_model[t])]
                /\ pc' = [pc EXCEPT ![t] = "done"]
       ELSE /\ pc' = [pc EXCEPT ![t] = "fault"]
            /\ UNCHANGED <<store, logs, result>>
    /\ UNCHANGED <<session, message, history, messages, reply, used_model, fetched,
                   prior, attempts, received, delivered>>

\* variant: the assistant row is inserted twice
SaveAssistantTwice(t, ok) ==
    /\ pc[t] = "save_assistant"
    /\ inserts' = [inserts EXCEPT ![t] =
          @ \o <<Insert(AssistantRow(session[t], reply[t]), ok),
                 Insert(AssistantRow(session[t], reply[t]), ok)>>]
    /\ IF ok
       THEN LET lg == Append(logs[t], Line("Assistant message saved", ""))
            IN  /\ store' = store \o <<AssistantRow(session[t], reply[t]),
                                       AssistantRow(session[t], reply[t])>>
                /\ logs' = [logs EXCEPT ![t] = lg]
                /\ result' = [result EXCEPT ![t] = SuccessResult(reply[t], lg, used_model[t])]
                /\ pc' = [pc EXCEPT ![t] = "done"]
       ELSE /\ pc' = [pc EXCEPT ![t] = "fault"]
            /\ UNCHANGED <<store, logs, result>>
    /\ UNCHANGED <<session, message, history, messages, reply, used_model, fetched,
                   prior, attempts, received, delivered>>

\* insert of the assistant row, then the reply is returned
SaveAssistant(t, ok) ==
    /\ pc[t] = "save_assistant"
    /\ inserts' = [inserts EXCEPT ![t] =
          Append(@, Insert(AssistantRow(session[t], reply[t]), ok))]
    /\ IF ok
       THEN LET lg == Append(logs[t], Line("Assistant message saved", ""))
            IN  /\ store' = Append(store, AssistantRow(session[t], reply[t]))
                /\ logs' = [logs EXCEPT ![t] = lg]
                /\ result' = [result EXCEPT ![t] = SuccessResult(reply[t], lg, used_model[t])]
                /\ pc' = [pc EXCEPT ![t] = "done"]
       ELSE /\ pc' = [pc EXCEPT ![t] = "fault"]
            /\ UNCHANGED <<store, logs, result>>
    /\ UNCHANGED <<session, message, history, messages, reply, used_model, fetched,
                   prior, attempts, received, delivered>>

\* the response (or the 500 of an unhandled exception) has left; the request's
\* locals are gone and the thread is idle again
Close(t) ==
    /\ pc[t] \in {"done", "fault"}
    /\ pc' = [pc EXCEPT ![t] = "idle"]
    /\ session' = [session EXCEPT ![t] = "s1"]
    /\ message' = [message EXCEPT ![t] = ""]
    /\ logs' = [logs EXCEPT ![t] = <<>>]
    /\ history' = [history EXCEPT ![t] = <<>>]
    /\ messages' = [messages EXCEPT ![t] = <<>>]
    /\ fetched' = [fetched EXCEPT ![t] = "no"]
    /\ reply' = [reply EXCEPT ![t] = ""]
    /\ used_model' = [used_model EXCEPT ![t] = NoModel]
    /\ result' = [result EXCEPT ![t] = NoResult]
    /\ prior' = [prior EXCEPT ![t] = <<>>]
    /\ inserts' = [inserts EXCEPT ![t] = <<>>]
    /\ attempts' = [attempts EXCEPT ![t] = <<>>]
    /\ UNCHANGED <<store, received, delivered>>

Next ==
    \/ \E t \in Turns, sid \in Sessions, text \in Messages, ok \in BOOLEAN :
          SaveUser(t, sid, text, ok)
    \/ \E t \in Turns, ok \in BOOLEAN : FetchHistory(t, ok)
    \/ \E t \in Turns, o \in Outcomes, c \in Replies : CallPrimary(t, o, c)
    \/ \E t \in Turns, o \in Outcomes, c \in Replies : CallFallback(t, o, c)
    \/ \E t \in Turns, ok \in BOOLEAN : SaveAssistant(t, ok)
    \/ \E t \in Turns : Close(t)

Spec == Init /\ [][Next]_vars

\* what thread t does next once its turn has begun
TurnStep(t) ==
    \/ \E ok \in BOOLEAN : FetchHistory(t, ok)
    \/ \E o \in Outcomes, c \in Replies : CallPrimary(t, o, c)
    \/ \E o \in Outcomes, c \in Replies : CallFallback(t, o, c)
    \/ \E ok \in BOOLEAN : SaveAssistant(t, ok)

\* every blocking call of a turn comes back: a table call returns or raises,
\* requests.post answers or raises after REQUEST_TIMEOUT at the latest
FairSpec == Spec /\ \A t \in Turns : WF_vars(TurnStep(t))

\* ------------------------------------------------------ reading the history
Succeeded(a) == a.outcome = "ok"

\* the turn of thread t has made a model request that succeeded
DispatchSucceeded(t) == \E i \in 1..Len(attempts[t]) : Succeeded(attempts[t][i])

\* both model requests of the turn of thread t were made and failed
BothFailed(t) ==
    /\ Len(attempts[t]) = 2
    /\ ~Succeeded(attempts[t][1])
    /\ ~Succeeded(attempts[t][2])

\* the prompt of thread t has been assembled
Assembled(t) == messages[t] # <<>>

\* what stands between the system directive and the new user message
Window(t) == SubSeq(messages[t], 2, Len(messages[t]) - 1)

Returned(t) == pc[t] = "done"

IsError(r) == DOMAIN r = {"error", "logs"}

IsReply(r) == DOMAIN r = {"reply", "logs", "model"}

CallingLines(lg) == SelectSeq(lg, LAMBDA l : l.line = "Calling model")

ResponseLines(lg) == SelectSeq(lg, LAMBDA l : l.line = "Response time")

AssistantInserts(t) == SelectSeq(inserts[t], LAMBDA i : i.row.role = "assistant")

\* ------------------------------------------------------------------ claims

\* C1: a turn whose primary and fallback dispatch both failed returns the
\* error marker "LLM failed" with a non-empty trace and no reply, has made no
\* assistant insert, and has made exactly one insert: its user message.
C1_BothFailReturnsError ==
    \A t \in Turns : BothFailed(t) =>
        /\ Returned(t)
        /\ IsError(result[t])
        /\ result[t].error = "LLM failed"
        /\ Len(result[t].logs) > 0
        /\ inserts[t] = <<Insert(Row(session[t], "user", message[t]), TRUE)>>

C1_Witness == \E t \in Turns : BothFailed(t) /\ Returned(t)

\* C2: when the primary request of a turn succeeded, the turn makes no request
\* to the fallback model and the model it returns is the primary's name.
C2_PrimarySuccessNoFallback ==
    \A t \in Turns :
        (Len(attempts[t]) >= 1 /\ attempts[t][1].model = PRIMARY_MODEL
                               /\ Succeeded(attempts[t][1])) =>
            /\ \A i \in 1..Len(attempts[t]) : attempts[t][i].model # FALLBACK_MODEL
            /\ Returned(t) => (IsReply(result[t]) /\ result[t].model = PRIMARY_MODEL)

C2_Witness ==
    \E t \in Turns : Returned(t) /\ Len(attempts[t]) = 1 /\ Succeeded(attempts[t][1])

\* C3: when the primary request failed (whatever the reason) and the fallback
\* request succeeded, the turn returns the fallback's name and the fallback's
\* content, and its trace holds a "Calling model" line for the primary followed
\* by one for the fallback.
C3_FallbackSuccess ==
    \A t \in Turns :
        (Returned(t) /\ Len(attempts[t]) = 2 /\ ~Succeeded(attempts[t][1])
                     /\ Succeeded(attempts[t][2])) =>
            /\ IsReply(result[t])
            /\ result[t].model = FALLBACK_MODEL
            /\ attempts[t][2].model = FALLBACK_MODEL
            /\ result[t].reply = attempts[t][2].content
            /\ Len(CallingLines(result[t].logs)) >= 2
            /\ \E i, j \in 1..Len(result[t].logs) :
                  /\ i < j
                  /\ result[t].logs[i] = Line("Calling model", PRIMARY_MODEL)
                  /\ result[t].logs[j] = Line("Calling model", FALLBACK_MODEL)

C3_Witness ==
    \E t \in Turns :
        /\ Returned(t) /\ Len(attempts[t]) = 2
        /\ attempts[t][1].outcome = "timeout"
        /\ Succeeded(attempts[t][2])

\* C4: on a session that held fewer than 6 rows when the turn began, the
\* window of the prompt is that whole prior history, oldest first; on a
\* brand-new session the prompt is [system directive, user(new message)].
C4_ShortHistoryWindow ==
    \A t \in Turns : (Assembled(t) /\ Len(prior[t]) < Limit) =>
        /\ Window(t) = Columns(prior[t])
        /\ prior[t] = <<>> =>
              messages[t] = <<Msg("system", SYSTEM_PROMPT), Msg("user", message[t])>>

\* C5: on a session that held 6 or more rows when the turn began, the window
\* of the prompt has exactly 6 entries: the 6 most recent prior rows, oldest
\* first.
C5_LongHistoryWindow ==
    \A t \in Turns : (Assembled(t) /\ Len(prior[t]) >= Limit) =>
        /\ Len(Window(t)) = Limit
        /\ Window(t) = LastN(Columns(prior[t]), Limit)

\* C6: every prompt that is assembled, and every prompt sent to a model,
\* starts with the system directive and ends with the turn's new user
\* message, whatever the window holds.
C6_PromptEnds ==
    \A t \in Turns :
        /\ Assembled(t) =>
              /\ Len(messages[t]) >= 2
              /\ messages[t][1] = Msg("system", SYSTEM_PROMPT)
              /\ messages[t][Len(messages[t])] = Msg("user", message[t])
        /\ \A i \in 1..Len(attempts[t]) :
              LET m == attempts[t][i].messages
              IN  /\ Len(m) >= 2
                  /\ m[1] = Msg("system", SYSTEM_PROMPT)
                  /\ m[Len(m)] = Msg("user", message[t])

\* a prompt with an empty window has been sent to a model
C6_Witness ==
    \E t \in Turns : Len(attempts[t]) >= 1 /\ Len(attempts[t][1].messages) = 2

\* C7: a turn in which a dispatch succeeded makes exactly two inserts, the
\* user message and then the assistant message; the reply is returned only
\* after the assistant insert, and the assistant row persisted is the returned
\* reply, which is the content the model named in the result produced.
C7_SuccessTwoInserts ==
    \A t \in Turns : (DispatchSucceeded(t) /\ pc[t] \in {"done", "fault"}) =>
        LET a == attempts[t][Len(attempts[t])]
        IN  /\ Succeeded(a)
            /\ Len(inserts[t]) = 2
            /\ inserts[t][1] = Insert(Row(session[t], "user", message[t]), TRUE)
            /\ inserts[t][2].row = Row(session[t], "assistant", a.content)
            /\ Returned(t) =>
                  /\ IsReply(result[t])
                  /\ inserts[t][2].persisted
                  /\ \E i \in 1..Len(store) : store[i] = inserts[t][2].row
                  /\ result[t].reply = inserts[t][2].row.content
                  /\ result[t].model = a.model
            /\ ~Returned(t) => result[t] = NoResult

C7_Witness ==
    \E t \in Turns : DispatchSucceeded(t) /\ Returned(t) /\ Len(attempts[t]) = 2

\* C8: every assistant row of the table carries the content of a successful
\* dispatch made for the same session, and a turn that ends in the error
\* result has made no assistant insert.
C8_AssistantRowsDelivered ==
    /\ \A i \in 1..Len(store) :
          store[i].role = "assistant" =>
              <<store[i].session_id, store[i].content>> \in delivered
    /\ \A t \in Turns :
          (Returned(t) /\ IsError(result[t])) => AssistantInserts(t) = <<>>

\* a turn has persisted an assistant row while another turn failed
C8_Witness ==
    /\ \E i \in 1..Len(store) : i > MaxPrior /\ store[i].role = "assistant"
    /\ \E t \in Turns : Returned(t) /\ IsError(result[t])

\* C9: a turn makes at most two model requests, the first to the primary model
\* and the second to the fallback model, and the second only after the first
\* failed.
C9_AtMostTwoAttempts ==
    \A t \in Turns :
        /\ Len(attempts[t]) <= 2
        /\ Len(attempts[t]) >= 1 => attempts[t][1].model = PRIMARY_MODEL
        /\ Len(attempts[t]) = 2 =>
              /\ attempts[t][2].model = FALLBACK_MODEL
              /\ ~Succeeded(attempts[t][1])

C9_Witness == \E t \in Turns : Len(attempts[t]) = 2

\* C10: each model request, however it ends, adds to the trace exactly one
\* line naming the model and exactly one line giving the elapsed time.
C10_TwoLinesPerAttempt ==
    \A t \in Turns :
        /\ Len(CallingLines(logs[t])) = Len(attempts[t])
        /\ Len(ResponseLines(logs[t])) = Len(attempts[t])

\* the place a trace line has in the order of the steps of chat(); 0 for the
\* elapsed-time line, which follows either model request
Rank(l) ==
    CASE l.line = "Received user message" -> 1
      [] l.line = "User message saved" -> 2
      [] l.line = "Loaded history messages" -> 3
      [] l.line = "Calling model" /\ l.arg = PRIMARY_MODEL -> 4
      [] l.line = "Primary model failed, switching fallback" -> 5
      [] l.line = "Calling model" /\ l.arg = FALLBACK_MODEL -> 6
      [] l.line = "Fallback model failed" -> 7
      [] l.line = "Reply generated via" -> 8
      [] l.line = "Assistant message saved" -> 9
      [] OTHER -> 0

\* the ranked lines of lg come in strictly rising rank
InStepOrder(lg) ==
    LET ranked == SelectSeq(lg, LAMBDA l : l.line # "Response time")
    IN  \A i \in 1..(Len(ranked) - 1) :
            /\ Rank(ranked[i]) # 0
            /\ Rank(ranked[i]) < Rank(ranked[i + 1])

LastAttempt(t) == attempts[t][Len(attempts[t])]

\* C11: a primary request that fails, in whichever way (other status, an
\* exception of requests.post such as a connection error or the timeout, a body
\* without the reply path), never ends the turn in an unhandled fault and is
\* followed by exactly one fallback request; a fallback request that fails in
\* any of these ways ends the turn with the "LLM failed" result.
C11_FailuresUniform ==
    \A t \in Turns :
        /\ (Len(attempts[t]) >= 1 /\ ~Succeeded(attempts[t][1])) =>
              IF Len(attempts[t]) = 1
              THEN pc[t] = "fallback"
              ELSE /\ Len(attempts[t]) = 2
                   /\ attempts[t][2].model = FALLBACK_MODEL
        /\ (Len(attempts[t]) = 2 /\ ~Succeeded(attempts[t][2])) =>
              /\ Returned(t)
              /\ IsError(result[t])
              /\ result[t].error = "LLM failed"
        /\ (pc[t] = "fault" /\ attempts[t] # <<>>) => Succeeded(LastAttempt(t))
        /\ (pc[t] = "save_assistant") =>
              (attempts[t] # <<>> /\ Succeeded(LastAttempt(t)))

\* every kind of failure has occurred on a primary and on a fallback request
C11_Witness ==
    \E t, u \in Turns :
        /\ t # u
        /\ Returned(t) /\ Len(attempts[t]) = 2
        /\ attempts[t][1].outcome = "status" /\ attempts[t][2].outcome = "malformed"
        /\ Returned(u) /\ Len(attempts[u]) = 2
        /\ attempts[u][1].outcome = "malformed" /\ attempts[u][2].outcome = "timeout"

\* C12: the steps of one turn come one after the other in the order user
\* insert, history select, prompt assembly, primary request, fallback request
\* (if any), assistant insert: no select before the user insert has completed,
\* no model request before the select and the assembly, and no assistant
\* insert without a successful model request before it.
C12_StepOrder ==
    \A t \in Turns :
        /\ InStepOrder(logs[t])
        /\ fetched[t] # "no" =>
              /\ Len(inserts[t]) >= 1
              /\ inserts[t][1] = Insert(Row(session[t], "user", message[t]), TRUE)
        /\ Assembled(t) => fetched[t] = "ok"
        /\ attempts[t] # <<>> => (Assembled(t) /\ fetched[t] = "ok")
        /\ Len(attempts[t]) = 2 =>
              /\ attempts[t][1].model = PRIMARY_MODEL
              /\ attempts[t][2].model = FALLBACK_MODEL
        /\ AssistantInserts(t) # <<>> =>
              /\ DispatchSucceeded(t)
              /\ Len(inserts[t]) = 2
              /\ inserts[t][1].row.role = "user"
              /\ inserts[t][2].row.role = "assistant"
        /\ pc[t] = "primary" => attempts[t] = <<>>
        /\ pc[t] = "fallback" => Len(attempts[t]) = 1

\* a turn has gone through all six steps
C12_Witness ==
    \E t \in Turns : Returned(t) /\ Len(attempts[t]) = 2 /\ Len(inserts[t]) = 2

\* C13: when the insert of the user message fails, the turn stops there: no
\* history select, no model request, no assistant insert, nothing returned.
C13_UserInsertFailureAborts ==
    \A t \in Turns :
        (inserts[t] # <<>> /\ ~inserts[t][1].persisted) =>
            /\ pc[t] = "fault"
            /\ fetched[t] = "no"
            /\ ~Assembled(t)
            /\ attempts[t] = <<>>
            /\ Len(inserts[t]) = 1
            /\ result[t] = NoResult

C13_Witness == \E t \in Turns : inserts[t] # <<>> /\ ~inserts[t][1].persisted

\* C14: when the history select fails, the turn stops there: no model request,
\* no assistant insert, nothing returned; the user row the turn inserted stays
\* in the table.
C14_FetchFailureFatal ==
    \A t \in Turns :
        fetched[t] = "failed" =>
            /\ pc[t] = "fault"
            /\ ~Assembled(t)
            /\ attempts[t] = <<>>
            /\ AssistantInserts(t) = <<>>
            /\ result[t] = NoResult
            /\ \E i \in 1..Len(store) : store[i] = Row(session[t], "user", message[t])

C14_Witness == \E t \in Turns : fetched[t] = "failed" /\ pc[t] = "fault"

InFlight(t) == pc[t] \in {"fetch", "primary", "fallback", "save_assistant"}

\* a call to the table made by the turn of thread t has raised
StoreCallRaised(t) ==
    \/ fetched[t] = "failed"
    \/ \E i \in 1..Len(inserts[t]) : ~inserts[t][i].persisted

\* C15: a turn that has begun comes to its end: it does not stay at the
\* primary or at the fallback request for ever, and unless a call to the table
\* raises it ends with a returned result (the reply or the error); a reply is
\* returned only by a turn that has ended after a successful model request.
C15_TurnEnds ==
    /\ \A t \in Turns : InFlight(t) ~> (pc[t] \in {"done", "fault"})
    /\ [](\A t \in Turns :
            /\ pc[t] = "fault" => StoreCallRaised(t)
            /\ Returned(t) => (IsReply(result[t]) \/ IsError(result[t]))
            /\ result[t] # NoResult => Returned(t)
            /\ IsReply(result[t]) => DispatchSucceeded(t))

\* one turn has ended with a reply and another with the error
C15_Witness ==
    \E t, u \in Turns :
        /\ Returned(t) /\ IsReply(result[t])
        /\ Returned(u) /\ IsError(result[u])

\* w is a run of consecutive elements of q
IsSegment(w, q) ==
    \E k \in 0..(Len(q) - Len(w)) : \A i \in 1..Len(w) : q[k + i] = w[i]

\* the rows thread t's turn has put in the table
OwnRows(t) ==
    LET kept == SelectSeq(inserts[t], LAMBDA i : i.persisted)
    IN  [i \in 1..Len(kept) |-> kept[i].row]

\* no other turn has written to the session of thread t since its turn began
SessionUndisturbed(t) == SessionRows(store, session[t]) = prior[t] \o OwnRows(t)

\* C16: whatever other turns do, a turn reads and writes its own session only:
\* the rows it retrieved and its window are consecutive rows of its session,
\* every row it inserts carries its session_id, and as long as no other turn
\* writes to its session the rows it retrieved are those it would have
\* retrieved running alone; what it returns is its own reply and trace.
C16_SessionIsolation ==
    \A t \in Turns :
        /\ \A i \in 1..Len(inserts[t]) : inserts[t][i].row.session_id = session[t]
        /\ fetched[t] = "ok" =>
              /\ LET own == Columns(SessionRows(store, session[t]))
                 IN  /\ IsSegment(history[t], own)
                     /\ IsSegment(Window(t), format_history(own))
              /\ SessionUndisturbed(t) =>
                    history[t] = LastN(Columns(Append(prior[t],
                                          Row(session[t], "user", message[t]))), Limit)
        /\ (Returned(t) /\ IsReply(result[t])) =>
              /\ result[t].reply = LastAttempt(t).content
              /\ result[t].logs = logs[t]

\* two turns of different sessions are under way, each with its prompt built
C16_Witness ==
    \E t, u \in Turns :
        /\ session[t] # session[u]
        /\ fetched[t] = "ok" /\ fetched[u] = "ok"
        /\ Len(Window(t)) >= 1 /\ Len(Window(u)) >= 1
        /\ attempts[t] # <<>> /\ attempts[u] # <<>>

\* row r has a role and a content
WellFormed(r) == r.role # "" /\ r.content # ""

\* h without its rows that lack a role or a content, built row by row
RECURSIVE Kept(_)
Kept(h) ==
    IF h = <<>> THEN <<>>
    ELSE IF WellFormed(Head(h)) THEN <<Head(h)>> \o Kept(Tail(h))
         ELSE Kept(Tail(h))

\* C17: the window holds, in their order, exactly the retrieved rows that have
\* a non-empty role and a non-empty content; a row lacking either is dropped
\* without raising and without ending the turn, and no older row takes its
\* place (at most 6 rows are retrieved, and the window is drawn from them).
C17_WindowFilter ==
    \A t \in Turns :
        fetched[t] = "ok" =>
            /\ Assembled(t)
            /\ Len(history[t]) <= Limit
            /\ Window(t) = Kept(history[t])
            /\ \A k \in 1..Len(Window(t)) : WellFormed(Window(t)[k])
            /\ pc[t] = "fault" => Len(inserts[t]) = 2

\* of 6 retrieved rows one was dropped, the window holds 5 and the turn went on
C17_Witness ==
    \E t \in Turns :
        /\ fetched[t] = "ok"
        /\ Len(history[t]) = Limit
        /\ Len(Window(t)) = Limit - 1
        /\ attempts[t] # <<>>

\* what a new select and a new assembly would give thread t now
Rebuilt(t) == BuildMessages(Reverse(QueryRecent(store, session[t], Limit)), message[t])

\* C18: the fallback request carries the prompt the primary request carried:
\* the history is not selected again and the prompt is not rebuilt or changed
\* between the two, even when other turns insert rows for the session.
C18_SamePromptForFallback ==
    \A t \in Turns :
        /\ \A i \in 1..Len(attempts[t]) : attempts[t][i].messages = messages[t]
        /\ Len(attempts[t]) = 2 =>
              attempts[t][2].messages = attempts[t][1].messages

\* both requests were made and the session's rows are no longer those selected
C18_Witness ==
    \E t \in Turns :
        /\ Len(attempts[t]) = 2
        /\ Rebuilt(t) # attempts[t][1].messages

CountRole(tbl, sid, role) ==
    Len(SelectSeq(tbl, LAMBDA r : r.session_id = sid /\ r.role = role))

\* C19: in the table no session has more assistant rows than user rows, and a
\* turn inserts at most one assistant row.
C19_AssistantAtMostUser ==
    /\ \A sid \in Sessions :
          CountRole(store, sid, "assistant") <= CountRole(store, sid, "user")
    /\ \A t \in Turns : Len(AssistantInserts(t)) <= 1

\* a turn has returned its reply and its session holds as many assistant rows
\* as user rows
C19_Witness ==
    \E t \in Turns :
        /\ Returned(t) /\ IsReply(result[t])
        /\ CountRole(store, session[t], "assistant") = CountRole(store, session[t], "user")

====
